---- MODULE Spec2Model ----
(***************************************************************************)
(* Model of the vast.ai offer search tools:                                *)
(*   scripts/interactive_search_vastai.py  (search, rank, curses menu,     *)
(*                                          confirmation, create instance) *)
(*   scripts/search_vastai_h100.py         (search, rank, printed table)   *)
(*                                                                         *)
(* Money is counted in units of $0.0001.  estimated_total_cost is kept as  *)
(* a multiple of 1/720 of that unit, so that the division by (30 * 24) of  *)
(* calculate_total_cost is exact.  Text is a sequence of one-character     *)
(* strings.  A dictionary key that is missing has the value ABSENT (or     *)
(* ABSENT_S for text), a JSON null has the value NULL (or NULL_S).         *)
(***************************************************************************)
EXTENDS Integers, Sequences, FiniteSets, TLC

\* ---------------------------------------------------------------- bounds
MaxResp == 2      \* longest array the marketplace tool returns per query
MaxKeys == 3      \* most keys read by the selection loop in one run
MaxList == 32     \* longest array of the long responses

\* ------------------------------------------------------- absent and null
ABSENT == -1
NULL == -2
ABSENT_S == <<"<absent>">>
NULL_S == <<"<null>">>
NONE == -1        \* Python None where an index or a price is expected

\* a price read without `or 0`
OrZero_KeepsNull(x) == x

\* Python truthiness of a number-or-None: `x or 0`
OrZero(x) == IF x = NULL \/ x = 0 THEN 0 ELSE x

\* dict.get(key, default) on a numeric field
Get(v, default) == IF v = ABSENT THEN default ELSE v

\* dict.get(key, default) on a text field
GetS(v, default) == IF v = ABSENT_S THEN default ELSE v

\* ------------------------------------------------------------------ text
Take(s, n) == SubSeq(s, 1, IF Len(s) < n THEN Len(s) ELSE n)

\* Python `sub in s`
Contains(sub, s) ==
    \E i \in 1..(Len(s) - Len(sub) + 1) : SubSeq(s, i, i + Len(sub) - 1) = sub

LowerCase == <<"a","b","c","d","e","f","g","h","i","j","k","l","m",
               "n","o","p","q","r","s","t","u","v","w","x","y","z">>
UpperCase == <<"A","B","C","D","E","F","G","H","I","J","K","L","M",
               "N","O","P","Q","R","S","T","U","V","W","X","Y","Z">>

UpperChar(c) ==
    IF \E i \in 1..26 : LowerCase[i] = c
    THEN UpperCase[CHOOSE i \in 1..26 : LowerCase[i] = c] ELSE c

LowerChar(c) ==
    IF \E i \in 1..26 : UpperCase[i] = c
    THEN LowerCase[CHOOSE i \in 1..26 : UpperCase[i] = c] ELSE c

Upper(s) == [i \in 1..Len(s) |-> UpperChar(s[i])]
Lower(s) == [i \in 1..Len(s) |-> LowerChar(s[i])]

IsSpace(c) == c \in {" ", "\t", "\n"}

RECURSIVE LStrip(_)
LStrip(s) == IF s # <<>> /\ IsSpace(Head(s)) THEN LStrip(Tail(s)) ELSE s

RECURSIVE RStrip(_)
RStrip(s) ==
    IF s # <<>> /\ IsSpace(s[Len(s)]) THEN RStrip(SubSeq(s, 1, Len(s) - 1)) ELSE s

Strip(s) == RStrip(LStrip(s))

Replace(s, from, to) == [i \in 1..Len(s) |-> IF s[i] = from THEN to ELSE s[i]]

Digit(d) == CASE d = 0 -> "0" [] d = 1 -> "1" [] d = 2 -> "2" [] d = 3 -> "3"
              [] d = 4 -> "4" [] d = 5 -> "5" [] d = 6 -> "6" [] d = 7 -> "7"
              [] d = 8 -> "8" [] d = 9 -> "9"

\* str(n) for a non-negative integer
RECURSIVE Str(_)
Str(n) == IF n < 10 THEN <<Digit(n)>> ELSE Str(n \div 10) \o <<Digit(n % 10)>>

\* ------------------------------------------------------------- constants
Scripts == {"interactive", "h100"}

CONTAINER_SIZE_GB(s) == IF s = "h100" THEN 160 ELSE 120
DATA_DOWNLOAD_GB(s) == IF s = "h100" THEN 150 ELSE 100
HOURS_PER_MONTH == 30 * 24
BID_INCREMENT == 100          \* 0.01 dollars
TOP_N(s) == IF s = "h100" THEN 30 ELSE 15

RTX_5090_SP == <<"R","T","X"," ","5","0","9","0">>
RTX_5090_US == <<"R","T","X","_","5","0","9","0">>
RTX_4090_US == <<"R","T","X","_","4","0","9","0">>
H100 == <<"H","1","0","0">>
H200 == <<"H","2","0","0">>
H100_RTX_5090 == <<"H","1","0","0","/","R","T","X"," ","5","0","9","0">>

EXCLUDE_GPU_NAMES(s) == IF s = "h100" THEN {RTX_5090_SP, RTX_5090_US} ELSE {}
TARGET_GPU_KEYWORDS == {H100, H200}

KEY_DOWN == 258
KEY_UP == 259
KEY_ENTER == 343
KEY_LF == 10
KEY_CR == 13
KEY_q == 113
KEY_Q == 81
KEY_x == 120
Keys == {KEY_DOWN, KEY_UP, KEY_ENTER, KEY_LF, KEY_CR, KEY_q, KEY_Q, KEY_x}

\* ---------------------------------------------------------------- offers
\* One element of the JSON array printed by `vastai search offers --raw`.
\* instance_type and estimated_total_cost are not part of the payload: the
\* scripts add them.
Payload(id, gpu, dpht, dph, sc, idc, geo) ==
    [id |-> id, gpu_name |-> gpu, num_gpus |-> 1, gpu_ram |-> 24,
     dph_total |-> dpht, dph |-> dph, storage_cost |-> sc,
     inet_down_cost |-> idc, inet_down |-> 1200, inet_up |-> 800,
     geolocation |-> geo, reliability |-> 99, total_flops |-> ABSENT,
     instance_type |-> "unk", estimated_total_cost |-> ABSENT]

\* The payloads the marketplace tool answers with in this model: two offers
\* of equal estimated cost, one with a null geolocation and a name that
\* holds both an excluded name and a target keyword, one without an id and
\* with a null dph_total.
OfferA == Payload(7, H100, 5000, 4000, 0, 0, <<"U","S">>)
OfferB == Payload(123456, H200, ABSENT, 5000, ABSENT, NULL, ABSENT_S)
OfferC == Payload(3, H100_RTX_5090, 3000, ABSENT, 0, 0, NULL_S)
OfferD == Payload(ABSENT, RTX_4090_US, NULL, 4000, 73000, 5, <<"P","L">>)
Payloads == {OfferA, OfferB, OfferC, OfferD}

RECURSIVE SeqsUpTo(_, _)
SeqsUpTo(S, n) ==
    IF n = 0 THEN {<<>>}
    ELSE LET shorter == SeqsUpTo(S, n - 1)
         IN shorter \cup {Append(q, x) : q \in {r \in shorter : Len(r) = n - 1}, x \in S}

\* What one run of the marketplace tool produces: a non-zero exit, output
\* that is not JSON, or a JSON array of offers.
Responses ==
    {[status |-> "nonzero", offers |-> <<>>], [status |-> "badjson", offers |-> <<>>]}
      \cup {[status |-> "ok", offers |-> q] : q \in SeqsUpTo(Payloads, MaxResp)}

\* Responses that vary one offer field by field, and long responses.
\* Every price field is missing, null or a number.
CostPayloads ==
    {Payload(50, H100, dpht, dph, sc, idc, <<"U","S">>) :
        dpht \in {ABSENT, NULL, 0, 3000}, dph \in {ABSENT, NULL, 5000},
        sc \in {ABSENT, NULL, 73000}, idc \in {ABSENT, NULL, 5}}

\* gpu_ram on both sides of the 1000 threshold
RamPayloads ==
    {[Payload(60, H100, 5000, ABSENT, 0, 0, <<"U","S">>) EXCEPT !.gpu_ram = g] :
        g \in {ABSENT, NULL, 0, 24, 999, 1000, 1001, 24576}}

Patterns == {"descending", "equal", "zigzag"}

LongPrice(i, pattern) ==
    CASE pattern = "descending" -> 9000 - 10 * i
      [] pattern = "equal" -> 5000
      [] OTHER -> 5000 + 100 * (i % 3)

LongList(n, pattern) ==
    [i \in 1..n |-> Payload(1000 + i, H200, LongPrice(i, pattern), ABSENT, 0, 0, <<"D","E">>)]

FieldResponses ==
    {[status |-> "ok", offers |-> <<p>>] : p \in CostPayloads \cup RamPayloads}
      \cup {[status |-> "ok", offers |-> LongList(n, pattern)] :
                n \in 1..MaxList, pattern \in Patterns}

FieldBidResponses ==
    {[status |-> "nonzero", offers |-> <<>>], [status |-> "ok", offers |-> <<OfferA>>]}

\* ------------------------------------------------------------ cost model
\* offer.get('dph_total', offer.get('dph', 0)) or 0
BasePrice(offer) == OrZero(Get(offer.dph_total, Get(offer.dph, 0)))

\* a cost with the container size and the download volume swapped
calculate_total_cost_Swapped(offer, s) ==
    HOURS_PER_MONTH * BasePrice(offer)
      + DATA_DOWNLOAD_GB(s) * OrZero(Get(offer.storage_cost, 0))
      + HOURS_PER_MONTH * (CONTAINER_SIZE_GB(s) * OrZero(Get(offer.inet_down_cost, 0)))

\* calculate_total_cost, times HOURS_PER_MONTH
calculate_total_cost(offer, s) ==
    LET dph == BasePrice(offer)
        storage_cost_per_gb_month == OrZero(Get(offer.storage_cost, 0))
        inet_down_cost == OrZero(Get(offer.inet_down_cost, 0))
    IN HOURS_PER_MONTH * dph
         + CONTAINER_SIZE_GB(s) * storage_cost_per_gb_month
         + HOURS_PER_MONTH * (DATA_DOWNLOAD_GB(s) * inet_down_cost)

\* for offer in all_offers: offer['estimated_total_cost'] = ...
WithCost(offers, s) ==
    [i \in 1..Len(offers) |->
        [offers[i] EXCEPT !.estimated_total_cost = calculate_total_cost(offers[i], s)]]

\* ---------------------------------------------------------------- search
gpu_matches_target(gpu_name) ==
    \E keyword \in TARGET_GPU_KEYWORDS : Contains(keyword, Upper(gpu_name))

\* a filter that forgets the exclusion list
Keeps_NoExclusion(offer, s) ==
    s = "h100" => gpu_matches_target(GetS(offer.gpu_name, <<>>))

\* the test that keeps an offer in filtered_offers
Keeps(offer, s) ==
    LET gpu_name == GetS(offer.gpu_name, <<>>)
    IN /\ ~ \E excluded \in EXCLUDE_GPU_NAMES(s) : Contains(excluded, gpu_name)
       /\ s = "h100" => gpu_matches_target(gpu_name)

Tagged(offer, instance_type) == [offer EXCEPT !.instance_type = instance_type]

\* `excluded in gpu_name` is a TypeError when gpu_name is None and there is
\* an excluded name to look for
FilterRaises(offers, s) ==
    /\ EXCLUDE_GPU_NAMES(s) # {}
    /\ \E i \in 1..Len(offers) : offers[i].gpu_name = NULL_S

\* run_vastai_search without the except clause for JSONDecodeError
run_vastai_search_NoJsonCatch(resp, instance_type, s) ==
    IF resp.status = "ok"
    THEN LET kept == SelectSeq(resp.offers, LAMBDA o : Keeps(o, s))
         IN [raised |-> FilterRaises(resp.offers, s),
             offers |-> IF FilterRaises(resp.offers, s) THEN <<>>
                        ELSE [i \in 1..Len(kept) |-> Tagged(kept[i], instance_type)],
             log |-> {}]
    ELSE [raised |-> resp.status = "badjson", offers |-> <<>>,
          log |-> IF resp.status = "nonzero" THEN {<<"Error searching", instance_type>>}
                  ELSE {}]

\* run_vastai_search: what the call does for one response of the tool.
\* CalledProcessError and JSONDecodeError are caught and give []; no other
\* exception is caught.
run_vastai_search(resp, instance_type, s) ==
    IF resp.status = "ok"
    THEN IF FilterRaises(resp.offers, s)
         THEN [raised |-> TRUE, offers |-> <<>>, log |-> {}]
         ELSE LET kept == SelectSeq(resp.offers, LAMBDA o : Keeps(o, s))
              IN [raised |-> FALSE,
                  offers |-> [i \in 1..Len(kept) |-> Tagged(kept[i], instance_type)],
                  log |-> {}]
    ELSE [raised |-> FALSE, offers |-> <<>>,
          log |-> {<<IF resp.status = "nonzero" THEN "Error searching"
                     ELSE "Error parsing JSON", instance_type>>}]

\* ------------------------------------------------------------------ sort
\* list.sort(key=lambda x: x['estimated_total_cost']) on a list shorter than
\* 64 elements: one natural run is found (and reversed when it is strictly
\* descending), the rest is inserted by binary insertion.
KeyOf(offer) == offer.estimated_total_cost

RECURSIVE AscRun(_, _)
AscRun(a, n) ==
    IF n < Len(a) /\ ~(KeyOf(a[n + 1]) < KeyOf(a[n])) THEN AscRun(a, n + 1) ELSE n

RECURSIVE DescRun(_, _)
DescRun(a, n) ==
    IF n < Len(a) /\ KeyOf(a[n + 1]) < KeyOf(a[n]) THEN DescRun(a, n + 1) ELSE n

\* count_run: length of the run starting the list, and whether it descends
CountRun(a) ==
    IF KeyOf(a[2]) < KeyOf(a[1])
    THEN [n |-> DescRun(a, 2), descending |-> TRUE]
    ELSE [n |-> AscRun(a, 2), descending |-> FALSE]

ReversePrefix(a, n) ==
    [i \in 1..Len(a) |-> IF i <= n THEN a[n + 1 - i] ELSE a[i]]

\* binary search that puts the pivot before the elements equal to it
RECURSIVE BinarySearch_Leftmost(_, _, _, _)
BinarySearch_Leftmost(a, pivot, l, r) ==
    IF l >= r THEN l
    ELSE LET p == l + ((r - l) \div 2)
         IN IF KeyOf(pivot) <= KeyOf(a[p])
            THEN BinarySearch_Leftmost(a, pivot, l, p)
            ELSE BinarySearch_Leftmost(a, pivot, p + 1, r)

\* binary search of binarysort: pivot goes after the elements equal to it
RECURSIVE BinarySearch(_, _, _, _)
BinarySearch(a, pivot, l, r) ==
    IF l >= r THEN l
    ELSE LET p == l + ((r - l) \div 2)
         IN IF KeyOf(pivot) < KeyOf(a[p])
            THEN BinarySearch(a, pivot, l, p)
            ELSE BinarySearch(a, pivot, p + 1, r)

MoveTo(a, start, pos) ==
    SubSeq(a, 1, pos - 1) \o <<a[start]>> \o SubSeq(a, pos, start - 1)
      \o SubSeq(a, start + 1, Len(a))

RECURSIVE BinarySort(_, _)
BinarySort(a, start) ==
    IF start > Len(a) THEN a
    ELSE BinarySort(MoveTo(a, start, BinarySearch(a, a[start], 1, start)), start + 1)

ListSort(a) ==
    IF Len(a) < 2 THEN a
    ELSE LET run == CountRun(a)
             a1 == IF run.descending THEN ReversePrefix(a, run.n) ELSE a
         IN BinarySort(a1, run.n + 1)

\* a slice that is one element too long
TopOffers_OneMore(ranked, s) == Take(ranked, TOP_N(s) + 1)

\* all_offers[:15], all_offers[:30]
TopOffers(ranked, s) == Take(ranked, TOP_N(s))

\* an emptiness test that never holds
NoOffers_Never(offers) == FALSE

\* `if not all_offers:` of main
NoOffers(offers) == offers = <<>>

\* ------------------------------------------------------------- formatter
IdWidth(s) == IF s = "h100" THEN 8 ELSE 5
TypeWidth(s) == IF s = "h100" THEN 6 ELSE 3
GpuWidth(s) == IF s = "h100" THEN 20 ELSE 12
GeoWidth(s) == IF s = "h100" THEN 4 ELSE 2

TypeText(t) ==
    CASE t = "bid" -> <<"b","i","d">>
      [] t = "on-demand" -> <<"o","n","-","d","e","m","a","n","d">>
      [] OTHER -> <<"u","n","k">>

\* str(v) of a JSON number or null
StrValue(v) == IF v = NULL THEN <<"N","o","n","e">> ELSE Str(v)

\* str(offer.get('id', offer.get('ask_contract_id', 'N/A')))
IdText(id) == IF id = ABSENT THEN <<"N","/","A">> ELSE StrValue(id)

\* format_table_row raises on a null where it slices, compares or multiplies
FormatRowRaises(offer) ==
    \/ offer.gpu_name = NULL_S
    \/ offer.gpu_ram = NULL
    \/ offer.inet_down = NULL
    \/ offer.inet_up = NULL
    \/ offer.geolocation = NULL_S
    \/ offer.reliability = NULL

VramGB(gpu_ram) ==
    IF gpu_ram # 0 /\ gpu_ram < 1000 THEN gpu_ram
    ELSE IF gpu_ram > 1000 THEN gpu_ram \div 1024 ELSE gpu_ram

Throughput(mbps) ==
    IF mbps >= 1000 THEN [value |-> mbps, unit |-> "Gb"] ELSE [value |-> mbps, unit |-> "Mb"]

\* format_table_row, for an offer on which it does not raise
format_table_row(offer, rank, s) ==
    [rank |-> rank,
     machine_id |-> Take(IdText(offer.id), IdWidth(s)),
     instance_type |-> Upper(Take(TypeText(offer.instance_type), TypeWidth(s))),
     gpu_name |-> Take(Replace(GetS(offer.gpu_name, <<"U","n","k","n","o","w","n">>),
                               "_", " "), GpuWidth(s)),
     num_gpus |-> Get(offer.num_gpus, 0),
     vram |-> VramGB(Get(offer.gpu_ram, 0)),
     total_cost |-> Get(offer.estimated_total_cost, 0),
     dph |-> BasePrice(offer),
     down |-> Throughput(Get(offer.inet_down, 0)),
     up |-> Throughput(Get(offer.inet_up, 0)),
     geolocation |-> Take(GetS(offer.geolocation, <<"N","/","A">>), GeoWidth(s)),
     reliability |-> Get(offer.reliability, 0) * 100,
     tflops |-> IF Get(offer.total_flops, 0) \in {0, NULL} THEN NONE
                ELSE offer.total_flops]

RowsRaise(offers) == \E i \in 1..Len(offers) : FormatRowRaises(offers[i])

\* the exception of the first row that raises: None.replace is an
\* AttributeError, the other nulls give a TypeError
RowsException(offers) ==
    LET first == CHOOSE i \in 1..Len(offers) :
                    /\ FormatRowRaises(offers[i])
                    /\ \A j \in 1..(i - 1) : ~FormatRowRaises(offers[j])
    IN IF offers[first].gpu_name = NULL_S THEN "AttributeError" ELSE "TypeError"

\* _draw_menu: the rows put on the screen and the row shown highlighted
DrawMenu(offers, selected_row_idx, s) ==
    [rows |-> [i \in 1..Len(offers) |-> format_table_row(offers[i], i, s)],
     highlighted |-> selected_row_idx]

NoScreen == [rows |-> <<>>, highlighted |-> NONE]

\* -------------------------------------------------------- selection loop
IsEnterKey(k) == k \in {KEY_LF, KEY_CR, KEY_ENTER}
\* a quit test that forgets the capital letter
IsQuitKey_LowerOnly(k) == k = KEY_q

IsQuitKey(k) == k \in {KEY_q, KEY_Q}

\* a key dispatch whose down-arrow has no ceiling
MoveCursor_NoCeiling(row, k, n) ==
    IF k = KEY_UP /\ row > 0 THEN row - 1
    ELSE IF k = KEY_DOWN THEN row + 1
    ELSE row

\* the first two branches of the key dispatch of _select_loop
MoveCursor(row, k, n) ==
    IF k = KEY_UP /\ row > 0 THEN row - 1
    ELSE IF k = KEY_DOWN /\ row < n - 1 THEN row + 1
    ELSE row

\* a wrapper that leaves the terminal as it is
WrapperExit_NoRestore(rawNow) == rawNow

\* a turn of the loop that drops the first offer on an unbound key
OffersAfterKey_Drops(offers, k) ==
    IF k = KEY_x /\ Len(offers) > 1 THEN Tail(offers) ELSE offers

\* the list `offers` after one turn of the loop: the key dispatch and
\* _draw_menu only read it
OffersAfterKey(offers, k) == offers

\* curses.wrapper: the terminal mode after the wrapped call has ended,
\* whether by a return or by an exception (endwin() in its finally clause)
WrapperExit(rawNow) == FALSE

\* an index that ignores the cursor
SelectedOffer_First(offers, idx) == offers[1]

\* top_offers[selected_idx]
SelectedOffer(offers, idx) == offers[idx + 1]

\* --------------------------------------------------- confirmation, create
\* input(...).strip().lower()
Normalise(answer) == Lower(Strip(answer))

\* a test that takes every answer starting with y for a yes
ConfirmsBid_StartsWithY(confirm) == confirm # <<>> /\ confirm[1] = "y"

\* a test that takes every non-empty answer for a yes
ConfirmsBid_NotEmpty(confirm) == confirm # <<>>

ConfirmsBid(confirm) == confirm = <<"y">>

Answers == {<<"y">>, <<" ","Y","\n">>, <<"n">>, <<"q">>, <<"Q">>, <<"y","e","s">>, <<>>}

\* the command line built by create_bid_instance
CreateCommand(offer) ==
    [machine_id |-> StrValue(offer.id),
     disk |-> 120,
     bid_price |-> BasePrice(offer) + BID_INCREMENT]

\* create_bid_instance without its except clause
CreateOutcome_Raises(rc) == [raised |-> rc # 0, result |-> rc = 0]

\* create_bid_instance after subprocess.run: CalledProcessError is caught
CreateOutcome(rc) == [raised |-> FALSE, result |-> rc = 0]

ExitCodes == {0, 1}

\* ----------------------------------------------------------------- state
VARIABLES
    script,            \* which of the two programs runs
    pc,                \* where main is
    od_status,         \* how the on-demand query ended
    bid_status,        \* how the interruptible query ended
    od_response,       \* the array parsed from the on-demand query's output
    bid_response,      \* the array parsed from the interruptible query's output
    on_demand_offers, bid_offers, all_offers, top_offers,
    raw,               \* the terminal is in curses mode
    current_row,       \* cursor of _select_loop
    prev_row,          \* cursor before the last key
    key,               \* last key returned by getch
    nkeys,             \* keys read so far
    screen,            \* what the last completed _draw_menu has drawn
    selected_offer,    \* <<>> or <<top_offers[selected_idx]>>
    typed,             \* the line the operator typed at the prompt
    confirm,           \* the normalised answer to the prompt
    cmd,               \* <<>> or <<the create command issued>>
    creates,           \* number of create commands run
    create_rc,         \* exit status of the create command, NONE before
    create_result,     \* "none", "True" or "False"
    stdout, stderr,    \* messages printed
    exit_code,         \* "running", "0", "1" or "traceback"
    exception          \* "none" or the exception that ended the run

vars == <<script, pc, od_status, bid_status, on_demand_offers, bid_offers,
          all_offers, top_offers, raw, current_row, prev_row, key, nkeys,
          screen, selected_offer, typed, confirm, cmd, creates, create_rc,
          create_result, stdout, stderr, exit_code, exception,
          od_response, bid_response>>

searchVars == <<od_status, bid_status, on_demand_offers, bid_offers,
               od_response, bid_response>>
listVars == <<all_offers, top_offers>>
loopVars == <<raw, current_row, prev_row, key, nkeys, screen, selected_offer>>
commitVars == <<typed, confirm, cmd, creates, create_rc, create_result>>

Init ==
    /\ script \in Scripts
    /\ pc = "search_on_demand"
    /\ od_status = "pending" /\ bid_status = "pending"
    /\ on_demand_offers = <<>> /\ bid_offers = <<>>
    /\ all_offers = <<>> /\ top_offers = <<>>
    /\ raw = FALSE
    /\ current_row = 0 /\ prev_row = 0 /\ key = NONE /\ nkeys = 0
    /\ screen = NoScreen
    /\ selected_offer = <<>>
    /\ typed = <<>> /\ confirm = <<>> /\ cmd = <<>> /\ creates = 0
    /\ create_rc = NONE /\ create_result = "none"
    /\ stdout = {} /\ stderr = {}
    /\ exit_code = "running" /\ exception = "none"
    /\ od_response = <<>> /\ bid_response = <<>>

\* an exception nobody catches: the interpreter prints a traceback and exits
Traceback(exc) ==
    /\ pc' = "done"
    /\ exit_code' = "traceback"
    /\ exception' = exc

\* on_demand_offers = run_vastai_search("on-demand")
SearchOnDemand(resp) ==
    /\ pc = "search_on_demand"
    /\ LET r == run_vastai_search(resp, "on-demand", script)
       IN /\ od_status' = resp.status
          /\ od_response' = resp.offers
          /\ on_demand_offers' = r.offers
          /\ stderr' = stderr \cup {<<"Searching", "on-demand">>} \cup r.log
          /\ IF r.raised THEN Traceback("TypeError")
             ELSE pc' = "search_bid" /\ exit_code' = exit_code /\ exception' = exception
    /\ UNCHANGED <<script, bid_status, bid_offers, bid_response, listVars, loopVars, commitVars, stdout>>

\* bid_offers = run_vastai_search("bid")
SearchBid(resp) ==
    /\ pc = "search_bid"
    /\ LET r == run_vastai_search(resp, "bid", script)
       IN /\ bid_status' = resp.status
          /\ bid_response' = resp.offers
          /\ bid_offers' = r.offers
          /\ stderr' = stderr \cup {<<"Searching", "bid">>} \cup r.log
          /\ IF r.raised THEN Traceback("TypeError")
             ELSE pc' = "combine" /\ exit_code' = exit_code /\ exception' = exception
    /\ UNCHANGED <<script, od_status, on_demand_offers, od_response, listVars, loopVars, commitVars, stdout>>

\* all_offers = on_demand_offers + bid_offers; exit 1 when it is empty
Combine ==
    /\ pc = "combine"
    /\ all_offers' = on_demand_offers \o bid_offers
    /\ IF NoOffers(all_offers')
       THEN /\ stderr' = stderr \cup {<<"No offers found">>}
            /\ exit_code' = "1" /\ exception' = exception
            /\ pc' = "done"
       ELSE /\ stderr' = stderr \cup {<<"Found total offers">>}
            /\ exit_code' = exit_code /\ exception' = exception
            /\ pc' = "cost"
    /\ UNCHANGED <<script, searchVars, top_offers, loopVars, commitVars, stdout>>

\* the loop that attaches estimated_total_cost; the dictionaries of
\* all_offers are the ones on_demand_offers and bid_offers hold
Cost ==
    /\ pc = "cost"
    /\ all_offers' = WithCost(all_offers, script)
    /\ on_demand_offers' = WithCost(on_demand_offers, script)
    /\ bid_offers' = WithCost(bid_offers, script)
    /\ pc' = "sort"
    /\ UNCHANGED <<script, od_status, bid_status, od_response, bid_response,
                   top_offers, loopVars, commitVars, stdout, stderr, exit_code, exception>>

\* all_offers.sort(...); top_offers = all_offers[:15]
SortTop ==
    /\ pc = "sort"
    /\ all_offers' = ListSort(all_offers)
    /\ top_offers' = TopOffers(all_offers', script)
    /\ IF top_offers' = <<>>
       THEN pc' = "done" /\ exit_code' = "0" /\ exception' = exception
       ELSE /\ pc' = IF script = "h100" THEN "print" ELSE "select"
            /\ exit_code' = exit_code /\ exception' = exception
    /\ UNCHANGED <<script, searchVars, loopVars, commitVars, stdout, stderr>>

\* search_vastai_h100.py: the table is printed row by row
PrintTable ==
    /\ pc = "print"
    /\ IF RowsRaise(top_offers)
       THEN /\ Traceback(RowsException(top_offers))
            /\ screen' = screen
            /\ stdout' = stdout \cup {<<"TOP 30">>}
       ELSE /\ screen' = DrawMenu(top_offers, NONE, script)
            /\ stdout' = stdout \cup {<<"TOP 30">>, <<"Showing top 30">>}
            /\ pc' = "done"
            /\ exit_code' = "0" /\ exception' = exception
    /\ UNCHANGED <<script, searchVars, listVars, raw, current_row, prev_row, key,
                   nkeys, selected_offer, commitVars, stderr>>

\* curses_interactive_select up to the first getch: curses.wrapper puts the
\* terminal in curses mode, _select_loop draws the menu with the cursor on
\* row 0.  fault: the terminal makes a curses call of _draw_menu fail.
StartSelect(fault) ==
    /\ pc = "select"
    /\ current_row' = 0
    /\ IF fault \/ RowsRaise(top_offers)
       THEN /\ raw' = WrapperExit(TRUE)
            /\ screen' = screen
            /\ Traceback(IF fault THEN "curses.error" ELSE RowsException(top_offers))
       ELSE /\ raw' = TRUE
            /\ screen' = DrawMenu(top_offers, 0, script)
            /\ pc' = "browsing"
            /\ exit_code' = exit_code /\ exception' = exception
    /\ UNCHANGED <<script, searchVars, listVars, prev_row, key, nkeys,
                   selected_offer, commitVars, stdout, stderr>>

\* one turn of the while loop of _select_loop: getch returns k, the key is
\* dispatched, and either the loop is left (through curses.wrapper, back in
\* main up to its next input) or the menu is drawn again.
KeyPress(k, fault) ==
    /\ pc = "browsing"
    /\ nkeys < MaxKeys
    /\ key' = k
    /\ nkeys' = nkeys + 1
    /\ prev_row' = current_row
    /\ current_row' = MoveCursor(current_row, k, Len(top_offers))
    /\ IF current_row' # current_row
       THEN \* a cursor move, then _draw_menu
            IF fault
            THEN /\ raw' = WrapperExit(raw)
                 /\ Traceback("curses.error")
                 /\ UNCHANGED <<screen, selected_offer, stdout>>
            ELSE /\ screen' = DrawMenu(top_offers, current_row', script)
                 /\ UNCHANGED <<raw, pc, exit_code, exception, selected_offer, stdout>>
       ELSE IF IsEnterKey(k)
       THEN \* break; return current_row; main reads top_offers[selected_idx]
            /\ raw' = WrapperExit(raw)
            /\ selected_offer' = <<SelectedOffer(top_offers, current_row)>>
            /\ screen' = screen
            /\ IF selected_offer'[1].id = ABSENT
               THEN Traceback("KeyError") /\ stdout' = stdout
               ELSE /\ stdout' = stdout \cup {<<"Selected instance">>}
                    /\ pc' = "confirming"
                    /\ exit_code' = exit_code /\ exception' = exception
       ELSE IF IsQuitKey(k)
       THEN \* return None; main prints, calls curses.endwin() and returns
            /\ raw' = FALSE
            /\ stdout' = stdout \cup {<<"Selection cancelled.">>}
            /\ pc' = "done"
            /\ exit_code' = "0" /\ exception' = exception
            /\ UNCHANGED <<screen, selected_offer>>
       ELSE \* no branch taken, then _draw_menu
            IF fault
            THEN /\ raw' = WrapperExit(raw)
                 /\ Traceback("curses.error")
                 /\ UNCHANGED <<screen, selected_offer, stdout>>
            ELSE /\ screen' = DrawMenu(top_offers, current_row', script)
                 /\ UNCHANGED <<raw, pc, exit_code, exception, selected_offer, stdout>>
    /\ top_offers' = OffersAfterKey(top_offers, k)
    /\ UNCHANGED <<script, searchVars, all_offers, commitVars, stderr>>

\* Ctrl-C while getch waits: KeyboardInterrupt leaves _select_loop
Interrupt ==
    /\ pc = "browsing"
    /\ raw' = WrapperExit(raw)
    /\ Traceback("KeyboardInterrupt")
    /\ UNCHANGED <<script, searchVars, listVars, current_row, prev_row, key, nkeys,
                   screen, selected_offer, commitVars, stdout, stderr>>

\* the operator answers the prompt; on 'y' create_bid_instance builds the
\* command and runs it
Confirm(answer) ==
    /\ pc = "confirming"
    /\ typed' = answer
    /\ confirm' = Normalise(answer)
    /\ IF ConfirmsBid(confirm')
       THEN /\ cmd' = <<CreateCommand(selected_offer[1])>>
            /\ creates' = creates + 1
            /\ stdout' = stdout \cup {<<"Creating bid instance">>}
            /\ pc' = "creating"
            /\ exit_code' = exit_code /\ exception' = exception
       ELSE /\ stdout' = stdout \cup {<<"Bid cancelled.">>}
            /\ pc' = "done"
            /\ exit_code' = "0" /\ exception' = exception
            /\ UNCHANGED <<cmd, creates>>
    /\ UNCHANGED <<script, searchVars, listVars, loopVars, create_rc, create_result, stderr>>

\* the create command ends with exit status rc
CreateReturns(rc) ==
    /\ pc = "creating"
    /\ create_rc' = rc
    /\ LET out == CreateOutcome(rc)
       IN IF out.raised
          THEN /\ Traceback("CalledProcessError")
               /\ UNCHANGED <<create_result, stdout>>
          ELSE /\ create_result' = IF out.result THEN "True" ELSE "False"
               /\ stdout' = stdout \cup
                     {IF out.result THEN <<"Bid instance created successfully!">>
                      ELSE <<"Failed to create bid instance">>}
               /\ pc' = "done"
               /\ exit_code' = "0" /\ exception' = exception
    /\ UNCHANGED <<script, searchVars, listVars, loopVars, typed, confirm, cmd, creates, stderr>>

Next ==
    \/ \E resp \in Responses : SearchOnDemand(resp)
    \/ \E resp \in Responses : SearchBid(resp)
    \/ Combine
    \/ Cost
    \/ SortTop
    \/ PrintTable
    \/ \E fault \in BOOLEAN : StartSelect(fault)
    \/ \E k \in Keys, fault \in BOOLEAN : KeyPress(k, fault)
    \/ Interrupt
    \/ \E answer \in Answers : Confirm(answer)
    \/ \E rc \in ExitCodes : CreateReturns(rc)

Spec == Init /\ [][Next]_vars

\* the same program, the marketplace tool answering with FieldResponses
NextFields ==
    \/ \E resp \in FieldResponses : SearchOnDemand(resp)
    \/ \E resp \in FieldBidResponses : SearchBid(resp)
    \/ Combine
    \/ Cost
    \/ SortTop
    \/ PrintTable
    \/ \E fault \in BOOLEAN : StartSelect(fault)
    \/ \E k \in Keys, fault \in BOOLEAN : KeyPress(k, fault)
    \/ Interrupt
    \/ \E answer \in Answers : Confirm(answer)
    \/ \E rc \in ExitCodes : CreateReturns(rc)

SpecFields == Init /\ [][NextFields]_vars

\* ================================================================ claims
Cancelled ==
    /\ pc = "done"
    /\ exit_code = "0"
    /\ <<"Selection cancelled.">> \in stdout \/ <<"Bid cancelled.">> \in stdout
Failed(status) == status \in {"nonzero", "badjson"}
Merged == on_demand_offers \o bid_offers
AfterSort == pc \in {"print", "select", "browsing", "confirming", "creating", "done"}
Count(q, x) == Cardinality({i \in 1..Len(q) : q[i] = x})
SameOffers(a, b) ==
    /\ Len(a) = Len(b)
    /\ \A i \in 1..Len(a) : Count(a, a[i]) = Count(b, a[i])
Ascending(q) ==
    \A i, j \in 1..Len(q) : i < j => q[i].estimated_total_cost <= q[j].estimated_total_cost
CostsOf(q) == {q[i].estimated_total_cost : i \in 1..Len(q)}
WithCostOf(q, c) == SelectSeq(q, LAMBDA o : o.estimated_total_cost = c)

\* C1: in the selection loop over N >= 1 offers the cursor is always in
\* [0, N-1]; an up-arrow at cursor 0 leaves it at 0 and a down-arrow at
\* cursor N-1 leaves it at N-1.
C1_CursorInRange ==
    (script = "interactive" /\ top_offers # <<>>) =>
        /\ current_row \in 0..(Len(top_offers) - 1)
        /\ (nkeys > 0 /\ key = KEY_UP /\ prev_row = 0) => current_row = 0
        /\ (nkeys > 0 /\ key = KEY_DOWN /\ prev_row = Len(top_offers) - 1)
               => current_row = Len(top_offers) - 1

\* three offers, [down, down, down]: the third down-arrow is pressed at
\* cursor 2 and leaves it at 2
C1_Witness ==
    /\ pc = "browsing" /\ Len(top_offers) = 3
    /\ nkeys = 3 /\ key = KEY_DOWN /\ prev_row = 2 /\ current_row = 2

\* C2: q or Q pressed in Browsing, or typed at the confirmation prompt, takes
\* the run to Cancelled; Cancelled is terminal and no run that is Cancelled
\* has issued a create command.
C2_QuitCancels ==
    [][ /\ (pc = "browsing" /\ nkeys' = nkeys + 1 /\ key' \in {KEY_q, KEY_Q})
             => Cancelled'
        /\ (pc = "confirming" /\ pc' # pc /\ typed' \in {<<"q">>, <<"Q">>})
             => Cancelled'
        /\ Cancelled' => (creates' = 0 /\ cmd' = <<>>)
        /\ ~Cancelled ]_vars

\* Q typed at the prompt after the cursor was moved: the run is Cancelled
C2_Witness ==
    /\ Cancelled /\ typed = <<"Q">> /\ current_row > 0

\* C3: the terminal is in curses mode while the selection loop waits for a
\* key and in no other state: it is restored when the loop is left by q/Q,
\* by Enter, or by an exception raised while drawing or reading a key.
C3_TerminalRestored ==
    /\ pc = "browsing" => raw
    /\ pc # "browsing" => ~raw

\* the loop was left by an exception after a key had been read
C3_Witness ==
    /\ script = "interactive" /\ pc = "done" /\ exit_code = "traceback"
    /\ nkeys > 0 /\ selected_offer = <<>> /\ ~raw

\* C4: the create command carries bidPrice = base price + increment for an
\* interruptible (bid) offer and carries no bid price for an on-demand offer.
C4_BidPriceOnlyForBid ==
    cmd # <<>> =>
        LET offer == selected_offer[1]
            base == IF offer.dph_total \notin {ABSENT, NULL} THEN offer.dph_total
                    ELSE IF offer.dph \notin {ABSENT, NULL} THEN offer.dph ELSE 0
        IN IF offer.instance_type = "bid"
           THEN cmd[1].bid_price = base + BID_INCREMENT
           ELSE cmd[1].bid_price = NONE

\* C5 as claimed: answering "n" at the prompt returns the loop to Browsing
\* and issues no create command.
C5_NoReturnsToBrowsing ==
    [][ (pc = "confirming" /\ pc' # pc /\ typed' = <<"n">>)
            => (pc' = "browsing" /\ creates' = creates) ]_vars

\* C5 amended: answering "n" at the prompt ends the run ("Bid cancelled.",
\* exit status 0) and issues no create command.
C5_NoEndsRun ==
    [][ (pc = "confirming" /\ pc' # pc /\ typed' = <<"n">>)
            => /\ pc' = "done" /\ exit_code' = "0"
               /\ <<"Bid cancelled.">> \in stdout'
               /\ creates' = creates /\ cmd' = cmd ]_vars

C5_Witness ==
    /\ pc = "done" /\ typed = <<"n">> /\ <<"Bid cancelled.">> \in stdout
    /\ creates = 0

\* value of a string of decimal digits
RECURSIVE DecValue(_)
DecValue(digits) ==
    IF digits = <<>> THEN 0
    ELSE 10 * DecValue(SubSeq(digits, 1, Len(digits) - 1))
           + (CHOOSE d \in 0..9 : Digit(d) = digits[Len(digits)])

\* C6: Enter in Browsing(cursor) takes offers[cursor] of the top-N list to
\* confirmation, and the identifier of a create command is that offer's id.
C6_SelectedIsCursor ==
    /\ selected_offer # <<>> => selected_offer[1] = top_offers[current_row + 1]
    /\ cmd # <<>> =>
          /\ \A i \in 1..Len(cmd[1].machine_id) :
                 \E d \in 0..9 : Digit(d) = cmd[1].machine_id[i]
          /\ DecValue(cmd[1].machine_id) = top_offers[current_row + 1].id

\* the second row, whose id has six digits, was chosen and committed
C6_Witness ==
    /\ cmd # <<>> /\ current_row = 1 /\ top_offers[2].id = 123456
    /\ top_offers[1].id # 123456

\* C7: when both queries end with a non-zero exit the run ends with exit
\* status 1 and "No offers found"; nothing is rendered, the terminal never
\* enters curses mode and no create command is issued.
C7_BothFail ==
    (od_status = "nonzero" /\ bid_status = "nonzero") =>
        /\ pc \in {"combine", "done"}
        /\ screen = NoScreen /\ ~raw /\ nkeys = 0
        /\ creates = 0 /\ cmd = <<>>
        /\ pc = "done" => (exit_code = "1" /\ <<"No offers found">> \in stderr)

C7_Witness ==
    /\ od_status = "nonzero" /\ bid_status = "nonzero"
    /\ pc = "done" /\ exit_code = "1"

\* what C8 says of a run in which the query `failed` failed and the other
\* query returned `others`
OneFailed(failedOffers, others) ==
    /\ failedOffers = <<>>
    /\ others # <<>> => exit_code # "1"
    /\ pc \notin {"search_on_demand", "search_bid", "combine"}
          => SameOffers(all_offers, others)
    /\ (AfterSort /\ others # <<>>) =>
          /\ Ascending(all_offers)
          /\ \A i \in 1..Len(all_offers) : all_offers[i].estimated_total_cost # ABSENT
          /\ top_offers = Take(all_offers, TOP_N(script))
    /\ (pc = "browsing" \/ (script = "h100" /\ pc = "done" /\ exit_code = "0")) =>
          /\ Len(screen.rows) = Len(top_offers)
          /\ \A i \in 1..Len(top_offers) :
                /\ screen.rows[i].rank = i
                /\ screen.rows[i].total_cost = top_offers[i].estimated_total_cost

\* C8: a query that ends with a non-zero exit or prints invalid JSON gives an
\* empty list for its category only and does not end the run: the next query
\* is still made, and the other category's offers are cost-estimated, ranked
\* and drawn.  Either category may be the failing one.
C8_OneCategoryFails ==
    /\ (Failed(od_status) /\ bid_status = "pending")
          => (pc = "search_bid" /\ exit_code = "running" /\ on_demand_offers = <<>>)
    /\ (Failed(od_status) /\ bid_status = "ok") => OneFailed(on_demand_offers, bid_offers)
    /\ (Failed(bid_status) /\ od_status = "ok") => OneFailed(bid_offers, on_demand_offers)

\* the on-demand query printed invalid JSON and two interruptible offers are
\* on the screen
C8_Witness ==
    /\ od_status = "badjson" /\ bid_status = "ok"
    /\ pc = "browsing" /\ Len(screen.rows) = 2

\* C9: when the create command ends with a non-zero exit the failure is
\* printed, create_bid_instance returns False instead of raising, the
\* command has been run once, and the run ends with exit status 0; nothing
\* happens after the command has returned.
C9_CreateFailure ==
    /\ [](create_rc \notin {NONE, 0} =>
            /\ pc = "done" /\ exit_code = "0"
            /\ create_result = "False"
            /\ <<"Failed to create bid instance">> \in stdout
            /\ creates = 1)
    /\ [][create_rc = NONE]_vars

C9_Witness ==
    /\ create_rc = 1 /\ pc = "done" /\ create_result = "False" /\ creates = 1

\* C10: the ranked list is the merged list (on-demand results followed by
\* interruptible results) in ascending order of estimated_total_cost, and
\* offers of equal estimated_total_cost keep the order they have in the
\* merged list.
C10_StableRank ==
    AfterSort =>
        /\ Len(all_offers) = Len(Merged)
        /\ Ascending(all_offers)
        /\ \A c \in CostsOf(Merged) : WithCostOf(all_offers, c) = WithCostOf(Merged, c)

\* a merged list that is not in order and holds two different offers of
\* equal cost
C10_Witness ==
    /\ AfterSort /\ all_offers # Merged
    /\ \E i, j \in 1..Len(Merged) :
          /\ i < j /\ Merged[i] # Merged[j]
          /\ Merged[i].estimated_total_cost = Merged[j].estimated_total_cost

\* C11: top_offers is the prefix of the ranked list of length
\* min(n, len(ranked)), n being 15 (30 in the H100 script): never more than
\* n offers, in ranked order, and no offer left out is cheaper than one kept.
C11_TopNPrefix ==
    AfterSort =>
        LET n == IF script = "h100" THEN 30 ELSE 15
            k == Len(top_offers)
        IN /\ k <= n
           /\ k = (IF Len(all_offers) < n THEN Len(all_offers) ELSE n)
           /\ \A i \in 1..k : top_offers[i] = all_offers[i]
           /\ \A i \in 1..k, j \in (k + 1)..Len(all_offers) :
                 top_offers[i].estimated_total_cost <= all_offers[j].estimated_total_cost

\* more than 15 ranked offers, 15 of them in the menu
C11_Witness ==
    /\ script = "interactive" /\ pc = "browsing"
    /\ Len(all_offers) > 15 /\ Len(top_offers) = 15

IsExcluded(gpu_name) ==
    \E excluded \in EXCLUDE_GPU_NAMES(script) : Contains(excluded, gpu_name)

AfterCost == pc \notin {"search_on_demand", "search_bid", "combine", "cost"}
Zeroed(v) == IF v \in {ABSENT, NULL} THEN 0 ELSE v

\* C13: for an offer in which any of dph_total, dph, storage_cost and
\* inet_down_cost is missing or null and the others are >= 0, the cost is
\* computed (no exception) and is a number >= 0; a missing storage or
\* download price adds nothing, and the cost is 0 when all four are missing.
C13_CostTotal ==
    AfterCost =>
        /\ pc \in {"sort", "print", "select"} => exception = "none"
        /\ \A i \in 1..Len(all_offers) :
              LET o == all_offers[i]
                  n == IF script = "h100" THEN 160 ELSE 120
                  m == IF script = "h100" THEN 150 ELSE 100
              IN /\ o.estimated_total_cost # ABSENT
                 /\ o.estimated_total_cost >= 0
                 /\ o.estimated_total_cost >=
                       n * Zeroed(o.storage_cost) + 720 * m * Zeroed(o.inet_down_cost)
                 /\ (\A v \in {o.dph_total, o.dph, o.storage_cost, o.inet_down_cost} :
                        v \in {ABSENT, NULL}) => o.estimated_total_cost = 0

\* an offer with a null dph_total, no storage_cost and a download price
C13_Witness ==
    /\ pc = "sort"
    /\ \E i \in 1..Len(all_offers) :
          /\ all_offers[i].dph_total = NULL
          /\ all_offers[i].storage_cost = ABSENT
          /\ all_offers[i].inet_down_cost = 5
          /\ all_offers[i].estimated_total_cost = 720 * 500

\* C14: the cost is base + storage + download with base = dph_total if the
\* key is there, else dph if the key is there, else 0 (a null counting as
\* 0), storage = containerSizeGB * storage_cost / 720 and download =
\* downloadVolumeGB * inet_down_cost.  With dph 0.50, storage_cost 7.30,
\* inet_down_cost 0.0005, 120 GB and 100 GB it is 1.7667 (12720000 / 720
\* units of 0.0001).
C14_CostFormula ==
    AfterCost =>
        \A i \in 1..Len(all_offers) :
            LET o == all_offers[i]
                containerSizeGB == IF script = "h100" THEN 160 ELSE 120
                downloadVolumeGB == IF script = "h100" THEN 150 ELSE 100
                base == IF o.dph_total # ABSENT THEN Zeroed(o.dph_total)
                        ELSE IF o.dph # ABSENT THEN Zeroed(o.dph) ELSE 0
            IN /\ o.estimated_total_cost =
                      720 * base + containerSizeGB * Zeroed(o.storage_cost)
                        + 720 * (downloadVolumeGB * Zeroed(o.inet_down_cost))
               /\ (/\ script = "interactive" /\ o.dph_total = ABSENT /\ o.dph = 5000
                   /\ o.storage_cost = 73000 /\ o.inet_down_cost = 5)
                     => o.estimated_total_cost = 12720000

\* the offer of the example, with its cost attached
C14_Witness ==
    /\ script = "interactive" /\ pc = "sort"
    /\ \E i \in 1..Len(all_offers) :
          /\ all_offers[i].dph_total = ABSENT /\ all_offers[i].dph = 5000
          /\ all_offers[i].storage_cost = 73000 /\ all_offers[i].inet_down_cost = 5
          /\ all_offers[i].estimated_total_cost = 12720000

\* C15: with any of the optional display fields missing or null,
\* format_table_row, and so every drawing of the menu or table, ends
\* without an error.
C15_RowsNeverRaise ==
    top_offers # <<>> => exception \notin {"TypeError", "AttributeError"}

\* C16: the confirmation prompt and the create command happen only when the
\* terminal has left curses mode.
C16_PromptOutsideRaw ==
    (pc \in {"confirming", "creating"} \/ typed # <<>> \/ cmd # <<>> \/ creates > 0)
        => ~raw

\* the create command runs after a menu in which the cursor was moved
C16_Witness ==
    /\ pc = "creating" /\ nkeys >= 2 /\ current_row > 0 /\ ~raw

\* C17: the VRAM figure of a row is the raw gpu_ram when that is below 1000
\* and gpu_ram / 1024, truncated, when it is 1000 or more.
C17_VramThreshold ==
    (screen.rows # <<>> /\ Len(screen.rows) = Len(top_offers)) =>
        \A i \in 1..Len(top_offers) :
            LET g == IF top_offers[i].gpu_ram = ABSENT THEN 0 ELSE top_offers[i].gpu_ram
            IN screen.rows[i].vram = (IF g < 1000 THEN g ELSE g \div 1024)

\* C18: from the start of the selection loop to its end no key and no
\* drawing changes the top-N list or any offer in it.
C18_ListUnchanged ==
    [][ (pc = "select" \/ pc = "browsing") =>
            (/\ top_offers' = top_offers
             /\ all_offers' = all_offers
             /\ on_demand_offers' = on_demand_offers
             /\ bid_offers' = bid_offers) ]_vars

\* an unbound key was read after the cursor had moved
C18_Witness ==
    /\ pc = "browsing" /\ nkeys >= 2 /\ key = KEY_x /\ current_row > 0
    /\ Len(screen.rows) = Len(top_offers)

\* C19: the create command is run at most once, and only after Enter in the
\* menu and an answer that is 'y' once trimmed and lower-cased; any other
\* answer, q/Q in the menu and an empty search result run it zero times.
C19_CreateOnlyOnYes ==
    LET yes == typed \in {<<"y">>, <<" ","Y","\n">>}
    IN /\ creates <= 1
       /\ creates = 1 =>
             /\ script = "interactive"
             /\ key \in {KEY_LF, KEY_CR, KEY_ENTER}
             /\ yes
       /\ (cmd # <<>>) = (creates = 1)
       /\ ~yes => creates = 0
       /\ key \in {KEY_q, KEY_Q} => creates = 0
       /\ exit_code = "1" => creates = 0

\* the operator typed " Y" and a newline; the command was run once
C19_Witness ==
    /\ pc = "done" /\ creates = 1 /\ typed = <<" ","Y","\n">>

====
